---------------------------- MODULE Spec2Model ----------------------------
(***************************************************************************)
(* Model of the yuutai-site performance engine                             *)
(* (scripts/calc_performance.py, scripts/generate_html.py,                 *)
(* scripts/fetch_zaiko.py) and of the ranking tool scripts/yuutai_cli.py.  *)
(*                                                                         *)
(* Representation choices                                                  *)
(*  - A Python float is modelled as an exact rational <<n, d>> with d > 0, *)
(*    kept in lowest terms.  <<0, 0>> stands for "the expression raised    *)
(*    ZeroDivisionError" and is propagated by every arithmetic operator.   *)
(*  - A Python str that the code inspects (csv fields) is a sequence of    *)
(*    one-character strings, so that startswith, strip, int() and the      *)
(*    f"{n:,}" formatting are computed character by character.             *)
(*  - Optional values (None) are sequences: <<>> is None, <<v>> is v.      *)
(*  - A dict is a function whose DOMAIN is the set of its keys.            *)
(***************************************************************************)
EXTENDS Integers, Sequences, FiniteSets, TLC

VARIABLES
    kachi_list,      \* rows of data/kachi.csv (csv.DictReader output)
    parsed_stocks,   \* list stored in data/parsed_stocks.json
    price_file,      \* data/stock_price/latest_prices.json: <<>> or <<prices>>
    zaiko_dir,       \* files of data/ippan_zaiko: set of [month, today, data]
    latest_prices,   \* module global _latest_prices: <<>> (None) or <<dict>>
    results,         \* value returned by the last calculate_all_performance
    called,          \* <<>> before any call, else <<month argument>>
    error,           \* "none", or the exception the last call raised
    page,            \* <<>>, or <<[month, stocks]>> rendered by the last
                     \* iteration of generate_month_pages
    previous,        \* <<>>, or what the call before the last one returned
                     \* (of calculate_all_performance: <<[month, results,
                     \* error, price_file]>>, with the price file as the last
                     \* call found it; of show_month_ranking: its outcome);
                     \* kept by the runs that compare two calls
    clock,           \* datetime.now() as a date stamp YYYYMMDD
    saved,           \* log of the save_zaiko calls made so far, oldest first
    loaded,          \* <<>>, or <<[month, data]>> of the last snapshot load
    holidays,        \* the days jpholiday.is_holiday holds of (day ordinals)
    cal,             \* the calendar function in progress or last returned
    now,             \* datetime.now().month as the ranking tool reads it
    cli,             \* <<>>, or the outcome of the last yuutai_cli call
    stock_pages      \* <<>>, or <<the files the last generate_stock_pages wrote>>

vars == <<kachi_list, parsed_stocks, price_file, zaiko_dir, latest_prices,
          results, called, error, page, previous, clock, saved, loaded, holidays, cal,
          now, cli, stock_pages>>

\* the variables the snapshot store, the calendar and the ranking tool add
snapshotVars == <<clock, saved, loaded>>
calendarVars == <<holidays, cal>>
cliVars == <<now, cli>>

-----------------------------------------------------------------------------
(* Optional values *)
None == <<>>
Some(v) == <<v>>
IsNone(o) == o = <<>>
Get(o) == o[1]

-----------------------------------------------------------------------------
(* Exact rational arithmetic standing for Python float arithmetic *)

Abs(n) == IF n < 0 THEN -n ELSE n

RECURSIVE GCD(_, _)
GCD(a, b) == IF b = 0 THEN a ELSE GCD(b, a % b)

Raised == <<0, 0>>
IsRaised(x) == x[2] = 0

Norm(n, d) ==
    IF d = 0 THEN Raised
    ELSE LET g == GCD(Abs(n), Abs(d))
             s == IF d < 0 THEN -1 ELSE 1
         IN  <<(s * n) \div g, (s * d) \div g>>

Rat(n) == <<n, 1>>
Zero == <<0, 1>>

RAdd(x, y) == IF IsRaised(x) \/ IsRaised(y) THEN Raised
              ELSE Norm(x[1] * y[2] + y[1] * x[2], x[2] * y[2])
RSub(x, y) == IF IsRaised(x) \/ IsRaised(y) THEN Raised
              ELSE Norm(x[1] * y[2] - y[1] * x[2], x[2] * y[2])
RMul(x, y) == IF IsRaised(x) \/ IsRaised(y) THEN Raised
              ELSE Norm(x[1] * y[1], x[2] * y[2])
\* Python "/": ZeroDivisionError when the divisor is zero
RDiv(x, y) == IF IsRaised(x) \/ IsRaised(y) \/ y[1] = 0 THEN Raised
              ELSE Norm(x[1] * y[2], x[2] * y[1])

RLeZero(x) == x[1] <= 0
RGtZero(x) == x[1] > 0

\* a/b < c/d for b, d > 0, by comparing continued-fraction expansions so
\* that no product is formed
RECURSIVE FracLess(_, _, _, _)
FracLess(a, b, c, d) ==
    LET q1 == a \div b
        q2 == c \div d
        r1 == a % b
        r2 == c % d
    IN  IF q1 # q2 THEN q1 < q2
        ELSE IF r2 = 0 THEN FALSE
        ELSE IF r1 = 0 THEN TRUE
        ELSE FracLess(d, r2, b, r1)

RLess(x, y) == FracLess(x[1], x[2], y[1], y[2])
RGeq(x, y) == ~RLess(x, y)

Pow10(k) == IF k = 0 THEN 1 ELSE IF k = 1 THEN 10 ELSE IF k = 2 THEN 100
            ELSE IF k = 3 THEN 1000 ELSE 10000

\* round(x, k): the nearest multiple of 10^-k, returned as the integer count
\* of 10^-k units; an exact tie goes to the even neighbour
Round(x, k) ==
    LET n    == x[1]
        d    == x[2]
        q    == n \div d
        r    == n % d
        whole == q * Pow10(k) + (r * Pow10(k)) \div d
        rem  == (r * Pow10(k)) % d
    IN  IF 2 * rem > d THEN whole + 1
        ELSE IF 2 * rem < d THEN whole
        ELSE IF whole % 2 = 0 THEN whole ELSE whole + 1

-----------------------------------------------------------------------------
(* Strings as character sequences *)

Digits == <<"0", "1", "2", "3", "4", "5", "6", "7", "8", "9">>
IsDigit(c) == \E i \in 1..10 : Digits[i] = c
DigitVal(c) == (CHOOSE i \in 1..10 : Digits[i] = c) - 1

RECURSIVE LStrip(_)
LStrip(s) == IF s # <<>> /\ Head(s) = " " THEN LStrip(Tail(s)) ELSE s

RECURSIVE RStrip(_)
RStrip(s) == IF s # <<>> /\ s[Len(s)] = " "
             THEN RStrip(SubSeq(s, 1, Len(s) - 1)) ELSE s

\* a strip that leaves the string as it is
Strip_none(s) == s

\* str.strip()
Strip(s) == RStrip(LStrip(s))

\* str.startswith(c) for a one-character prefix
StartsWith(s, c) == s # <<>> /\ Head(s) = c

RECURSIVE DigitsValue(_, _)
DigitsValue(s, acc) ==
    IF s = <<>> THEN acc ELSE DigitsValue(Tail(s), acc * 10 + DigitVal(Head(s)))

AllDigits(s) == s # <<>> /\ \A i \in 1..Len(s) : IsDigit(s[i])

\* int(s): surrounding whitespace is skipped by int() itself, then one
\* optional sign and decimal digits.  Returns <<>> for ValueError, else <<value>>.
ParseInt(s) ==
    LET t    == RStrip(LStrip(s))
        sign == IF StartsWith(t, "-") THEN -1 ELSE 1
        body == IF StartsWith(t, "+") \/ StartsWith(t, "-") THEN Tail(t) ELSE t
    IN  IF AllDigits(body) THEN Some(sign * DigitsValue(body, 0)) ELSE None

\* float(s), restricted to the integer literals the registry holds
ParseFloat(s) ==
    LET p == ParseInt(s) IN IF IsNone(p) THEN None ELSE Some(Rat(Get(p)))

RECURSIVE NatToStr(_)
NatToStr(n) == IF n < 10 THEN <<Digits[n + 1]>>
               ELSE NatToStr(n \div 10) \o <<Digits[(n % 10) + 1]>>

\* groups of three digits from the right, separated by ","
RECURSIVE GroupThousands(_)
GroupThousands(s) ==
    IF Len(s) <= 3 THEN s
    ELSE GroupThousands(SubSeq(s, 1, Len(s) - 3)) \o <<",">>
         \o SubSeq(s, Len(s) - 2, Len(s))

\* f"{n:,}"
FormatComma(n) ==
    IF n < 0 THEN <<"-">> \o GroupThousands(NatToStr(-n))
    ELSE GroupThousands(NatToStr(n))

-----------------------------------------------------------------------------
(* scripts/calc_performance.py *)

\* 0.15315 = 3063/20000
DIVIDEND_ADJUSTMENT_RATE == <<3063, 20000>>

\* calc_performance with the guard on the share count left out
calc_performance_price_guard_only(yuutai_value, required_shares, gyaku_hiboku, dividend, price) ==
    IF RLeZero(price) THEN Zero
    ELSE RMul(RDiv(RAdd(RSub(RDiv(yuutai_value, Rat(required_shares)), gyaku_hiboku),
                        RMul(dividend, DIVIDEND_ADJUSTMENT_RATE)), price), Rat(100))

\* calc_performance with the borrow cost added instead of subtracted
calc_performance_plus_gyaku(yuutai_value, required_shares, gyaku_hiboku, dividend, price) ==
    IF RLeZero(price) \/ required_shares <= 0 THEN Zero
    ELSE RMul(RDiv(RAdd(RAdd(RDiv(yuutai_value, Rat(required_shares)), gyaku_hiboku),
                        RMul(dividend, DIVIDEND_ADJUSTMENT_RATE)), price), Rat(100))

calc_performance(yuutai_value, required_shares, gyaku_hiboku, dividend, price) ==
    IF RLeZero(price) \/ required_shares <= 0 THEN Zero
    ELSE LET yuutai_per_share == RDiv(yuutai_value, Rat(required_shares))
             dividend_benefit == RMul(dividend, DIVIDEND_ADJUSTMENT_RATE)
             net_benefit      == RAdd(RSub(yuutai_per_share, gyaku_hiboku),
                                      dividend_benefit)
         IN  RMul(RDiv(net_benefit, price), Rat(100))

RECURSIVE SumGyaku(_)
SumGyaku(records) ==
    IF records = <<>> THEN Zero
    ELSE RAdd(Head(records).gyaku_hiboku, SumGyaku(Tail(records)))

\* the mean taken over the whole history instead of the first six records
get_latest_gyaku_hiboku_all_records(stock) ==
    IF stock.gyaku_hiboku = <<>> THEN Zero
    ELSE RDiv(SumGyaku(stock.gyaku_hiboku), Rat(Len(stock.gyaku_hiboku)))

\* mean of the first six borrow-cost records of the stock
get_latest_gyaku_hiboku(stock) ==
    LET records == stock.gyaku_hiboku
    IN  IF records = <<>> THEN Zero
        ELSE LET recent_records ==
                     SubSeq(records, 1, IF Len(records) < 6 THEN Len(records) ELSE 6)
             IN  RDiv(SumGyaku(recent_records), Rat(Len(recent_records)))

\* The first loop of the function only executes "continue" and has no effect.
\* The second loop scans reversed(records) and returns the amount of the first
\* entry that is not a forecast, i.e. of the LAST such entry of the list.
get_latest_dividend(stock) ==
    LET records == stock.dividend
        actual  == {i \in 1..Len(records) : ~records[i].is_forecast}
    IN  IF actual = {} THEN Zero
        ELSE records[CHOOSE i \in actual : \A j \in actual : j <= i].amount

\* load_latest_prices(): {} when the file is missing, else its "prices" map
load_latest_prices == IF IsNone(price_file) THEN <<>> ELSE Get(price_file)

\* get_latest_price that never consults the cached live prices
get_latest_price_history_only(stock, code, prices) ==
    IF stock.gyaku_hiboku = <<>> THEN Zero
    ELSE Rat(stock.gyaku_hiboku[1].close_price)

\* get_latest_price after the lazy load: prices is the cached map
get_latest_price(stock, code, prices) ==
    IF code # "" /\ code \in DOMAIN prices THEN prices[code]
    ELSE LET records == stock.gyaku_hiboku
         IN  IF records = <<>> THEN Zero ELSE Rat(records[1].close_price)

\* {s.get("code", ""): s for s in parsed_stocks}: the last entry of a code wins
stocks_dict(stocks) ==
    [c \in {stocks[i].code : i \in 1..Len(stocks)} |->
        stocks[CHOOSE i \in 1..Len(stocks) :
                  /\ stocks[i].code = c
                  /\ \A j \in 1..Len(stocks) : stocks[j].code = c => j <= i]]

\* Body of the for loop of calculate_all_performance for one registry row.
\* kind is "skip" (continue), "result", or the exception raised; priced tells
\* whether get_latest_price was reached.  The field row of a result is the
\* index of the registry row the iteration worked on (not a field of
\* StockPerformance; it lets properties relate a result to its row).
ProcessRow(kachi_data, row, month, sd, prices) ==
    LET code == kachi_data.code
        sm   == ParseInt(kachi_data.settlement_month)
    IN  IF IsNone(sm) THEN [kind |-> "ValueError", priced |-> FALSE]
        ELSE IF month # 0 /\ Get(sm) # month THEN [kind |-> "skip", priced |-> FALSE]
        ELSE IF code \notin DOMAIN sd THEN [kind |-> "skip", priced |-> FALSE]
        ELSE
          LET stock               == sd[code]
              yuutai_value        == ParseFloat(kachi_data.yuutai_value)
              required_shares_raw == Strip(kachi_data.required_shares)
              is_differential     == StartsWith(required_shares_raw, "+")
              required_shares     == ParseInt(required_shares_raw)
          IN  IF IsNone(yuutai_value) \/ IsNone(required_shares)
              THEN [kind |-> "ValueError", priced |-> FALSE]
              ELSE
                LET gyaku_hiboku == get_latest_gyaku_hiboku(stock)
                    dividend     == get_latest_dividend(stock)
                    price        == get_latest_price(stock, code, prices)
                    perf == calc_performance(Get(yuutai_value), Get(required_shares),
                                             gyaku_hiboku, dividend, price)
                IN  IF IsRaised(perf)
                    THEN [kind |-> "ZeroDivisionError", priced |-> TRUE]
                    ELSE [kind |-> "result", priced |-> TRUE,
                          res |-> [code             |-> code,
                                   settlement_month |-> Get(sm),
                                   price            |-> price,
                                   required_shares  |-> Get(required_shares),
                                   yuutai_value     |-> Get(yuutai_value),
                                   gyaku_hiboku     |-> gyaku_hiboku,
                                   dividend         |-> dividend,
                                   performance      |-> perf,
                                   is_taishaku      |-> stock.is_taishaku,
                                   is_differential  |-> is_differential,
                                   row              |-> row]]

\* sorted(glob("zaiko_MM_*.json"), reverse=True)[0]: among the files of the
\* month the one whose name is greatest, i.e. whose date stamp is greatest
load_latest_zaiko(month) ==
    LET files == {f \in zaiko_dir : f.month = month}
    IN  IF files = {} THEN <<>>
        ELSE (CHOOSE f \in files : \A g \in files : g.today <= f.today).data

\* a loop that also drops every result whose code is missing from the latest
\* inventory snapshot of the result's settlement month
RECURSIVE CollectResults_in_snapshot(_, _)
CollectResults_in_snapshot(o, i) ==
    IF i > Len(o) THEN <<>>
    ELSE IF /\ o[i].kind = "result"
            /\ o[i].res.code \in DOMAIN load_latest_zaiko(o[i].res.settlement_month)
         THEN <<o[i].res>> \o CollectResults_in_snapshot(o, i + 1)
         ELSE CollectResults_in_snapshot(o, i + 1)

\* a loop that keeps one result per stock code, that of its last row
RECURSIVE CollectResults_last_per_code(_, _)
CollectResults_last_per_code(o, i) ==
    IF i > Len(o) THEN <<>>
    ELSE IF /\ o[i].kind = "result"
            /\ \A j \in (i + 1)..Len(o) :
                  o[j].kind = "result" => o[j].res.code # o[i].res.code
         THEN <<o[i].res>> \o CollectResults_last_per_code(o, i + 1)
         ELSE CollectResults_last_per_code(o, i + 1)

\* The for loop over the registry rows, given the outcome o[i] of the loop
\* body for every row i: the loop stops at the first row whose body raises;
\* otherwise results holds the results of the rows in registry order.
RECURSIVE CollectResults(_, _)
CollectResults(o, i) ==
    IF i > Len(o) THEN <<>>
    ELSE IF o[i].kind = "result" THEN <<o[i].res>> \o CollectResults(o, i + 1)
    ELSE CollectResults(o, i + 1)

FoldOutcomes(o) ==
    LET raising == {i \in 1..Len(o) : o[i].kind \notin {"skip", "result"}}
    IN  IF raising = {}
        THEN [error |-> "none", results |-> CollectResults(o, 1),
              priced |-> \E i \in 1..Len(o) : o[i].priced]
        ELSE LET f == CHOOSE i \in raising : \A j \in raising : i <= j
             IN  [error |-> o[f].kind, results |-> <<>>,
                  priced |-> \E i \in 1..f : o[i].priced]

RunLoop(rows, month, sd, prices) ==
    FoldOutcomes([i \in 1..Len(rows) |-> ProcessRow(rows[i], i, month, sd, prices)])

\* list.sort(key=lambda x: x.performance, reverse=True): stable, descending
InsertDesc(sorted, x) ==
    LET before == {i \in 1..Len(sorted) : RGeq(sorted[i].performance, x.performance)}
        n == IF before = {} THEN 0
             ELSE CHOOSE i \in before : \A j \in before : j <= i
    IN  SubSeq(sorted, 1, n) \o <<x>> \o SubSeq(sorted, n + 1, Len(sorted))

\* a sort that leaves the list in registry order
SortDesc_unsorted(list) == list

RECURSIVE SortDesc(_)
SortDesc(list) ==
    IF list = <<>> THEN <<>>
    ELSE InsertDesc(SortDesc(SubSeq(list, 1, Len(list) - 1)), list[Len(list)])

\* results.sort(...) applied to the outcome of the loop
SortResults(out) == [out EXCEPT !.results = SortDesc(@)]

\* a call that ignores its month argument
calculate_all_performance_all_months(month, prices) ==
    SortResults(RunLoop(kachi_list, 0, stocks_dict(parsed_stocks), prices))

\* calculate_all_performance(month); month = 0 stands for None ("if month"
\* treats both alike).  prices is the price cache as it is after the lazy load.
calculate_all_performance(month, prices) ==
    SortResults(RunLoop(kachi_list, month, stocks_dict(parsed_stocks), prices))

-----------------------------------------------------------------------------
(* StockPerformance properties and to_dict *)

required_amount(r) == RMul(r.price, Rat(r.required_shares))

yuutai_per_share(r) ==
    IF r.required_shares = 0 THEN Zero
    ELSE RDiv(r.yuutai_value, Rat(r.required_shares))

dividend_benefit(r) == RMul(r.dividend, DIVIDEND_ADJUSTMENT_RATE)

net_benefit_per_share(r) ==
    RAdd(RSub(yuutai_per_share(r), r.gyaku_hiboku), dividend_benefit(r))

simple_yield(r) ==
    IF RLeZero(r.price) \/ r.required_shares <= 0 THEN Zero
    ELSE RMul(RDiv(yuutai_per_share(r), r.price), Rat(100))

\* the display without the "+" of a differential entry
required_shares_display_unsigned(r) == FormatComma(r.required_shares)

required_shares_display(r) ==
    LET formatted == FormatComma(r.required_shares)
    IN  IF r.is_differential THEN <<"+">> \o formatted ELSE formatted

\* Rounded fields are integer counts of 10^-2 resp. 10^-4.  row is carried
\* along from the result (see ProcessRow); it is not a key of the dict.
to_dict(r) ==
    [code                    |-> r.code,
     settlement_month        |-> r.settlement_month,
     price                   |-> r.price,
     required_shares         |-> r.required_shares,
     required_shares_display |-> required_shares_display(r),
     required_amount         |-> required_amount(r),
     yuutai_value            |-> r.yuutai_value,
     gyaku_hiboku            |-> r.gyaku_hiboku,
     dividend                |-> r.dividend,
     dividend_benefit        |-> Round(dividend_benefit(r), 2),
     net_benefit_per_share   |-> Round(net_benefit_per_share(r), 2),
     simple_yield            |-> Round(simple_yield(r), 4),
     performance             |-> Round(r.performance, 4),
     is_taishaku             |-> r.is_taishaku,
     is_differential         |-> r.is_differential,
     row                     |-> r.row]

-----------------------------------------------------------------------------
(* scripts/fetch_zaiko.py and scripts/generate_html.py *)

\* The merge of one performance dict with the inventory snapshot (the dict
\* of to_dict is kept under stock, the three merged keys beside it)
MergeZaiko(stock, zaiko_data) ==
    LET code == stock.code
    IN  IF code \in DOMAIN zaiko_data
        THEN LET max_gyaku == zaiko_data[code].max_gyaku
                 usable == /\ ~IsNone(max_gyaku) /\ Get(max_gyaku) # 0
                           /\ RGtZero(stock.price) /\ stock.required_shares > 0
             IN  [stock  |-> stock,
                  zaiko  |-> zaiko_data[code].zaiko,
                  restriction |-> zaiko_data[code].restriction,
                  max_gyaku_rate |->
                      IF usable
                      THEN Some(Round(RMul(RDiv(RDiv(Rat(Get(max_gyaku)),
                                                     Rat(stock.required_shares)),
                                                stock.price), Rat(100)), 2))
                      ELSE None]
        ELSE [stock |-> stock, zaiko |-> <<>>, restriction |-> "",
              max_gyaku_rate |-> None]

-----------------------------------------------------------------------------
(* Input domains *)

MaxRows == 2

Rec(gh, close) == [gyaku_hiboku |-> gh, close_price |-> close]
Div(amount, fc) == [amount |-> Rat(amount), is_forecast |-> fc]

\* one record: borrow cost 2.5, close 2000; one actual dividend of 50
StockA == [code |-> "1001", is_taishaku |-> TRUE,
           gyaku_hiboku |-> <<Rec(<<5, 2>>, 2000)>>,
           dividend |-> <<Div(50, FALSE)>>]
\* most-recent-first history with a forecast on top of two actual dividends
StockC == [code |-> "1001", is_taishaku |-> FALSE,
           gyaku_hiboku |-> <<Rec(Rat(0), 500), Rec(Rat(5), 800)>>,
           dividend |-> <<Div(30, TRUE), Div(60, FALSE), Div(40, FALSE)>>]
\* no borrow-cost history; the only dividend entry is a forecast
StockB == [code |-> "1002", is_taishaku |-> FALSE,
           gyaku_hiboku |-> <<>>,
           dividend |-> <<Div(70, TRUE)>>]
\* seven borrow-cost records; no dividend history
StockD == [code |-> "1002", is_taishaku |-> TRUE,
           gyaku_hiboku |-> <<Rec(Rat(1), 1000), Rec(Rat(1), 900), Rec(Rat(1), 900),
                              Rec(Rat(1), 900), Rec(Rat(1), 900), Rec(Rat(1), 900),
                              Rec(Rat(8), 900)>>,
           dividend |-> <<>>]

ParsedStocksChoices ==
    {a \o b : a \in {<<>>, <<StockA>>, <<StockC>>},
              b \in {<<>>, <<StockB>>, <<StockD>>}}

Row(code, sm, shares, value) ==
    [code |-> code, settlement_month |-> sm, required_shares |-> shares,
     yuutai_value |-> value]

KachiRows ==
    { Row("1001", <<"3">>, <<"1", "0", "0">>, <<"3", "0", "0", "0">>),
      Row("1001", <<"6">>, <<"+", "1", "0", "0", "0">>, <<"5", "0", "0", "0">>),
      Row("1001", <<"6">>, <<"+", "2", "0", "0">>, <<"1", "0", "0", "0">>),
      Row("1002", <<"6">>, <<"1", "0", "0", "0">>, <<"3", "0", "0", "0">>),
      Row("1002", <<"3">>, <<"-", "1", "0", "0">>, <<"2", "0", "0", "0">>),
      Row("1002", <<"6">>, <<" ", "+", "3", "0", "0">>, <<"2", "0", "0", "0">>),
      Row("1001", <<"6">>, <<"0">>, <<"3", "0", "0", "0">>) }

RECURSIVE SeqsUpTo(_, _)
SeqsUpTo(S, n) ==
    IF n = 0 THEN {<<>>}
    ELSE LET shorter == SeqsUpTo(S, n - 1)
         IN  shorter \cup {Append(q, x) : q \in shorter, x \in S}

\* no price file, or one that prices 1001 at 1800 and 1002 at -5
PriceFileChoices ==
    {None, Some([c \in {"1001", "1002"} |-> IF c = "1001" THEN Rat(1800) ELSE Rat(-5)])}

Entry(nikko, kabuka, avg5, maxg, restr) ==
    [zaiko |-> [nikko |-> nikko, sbi |-> None], kabuka |-> kabuka,
     avg5_gyaku |-> avg5, max_gyaku |-> maxg, restriction |-> restr]

ZaikoFile(month, today, data) == [month |-> month, today |-> today, data |-> data]

\* snapshots hold code 1001 for month 3 only, code 1002 for month 6 only;
\* "caution" stands for the restriction string of fetch_zaiko.py line 89
ZaikoDirChoices ==
    { {},
      { ZaikoFile(3, 20240105,
                  [c \in {"1001"} |-> Entry(Some(10), Some(1900), Some(<<3, 2>>),
                                            Some(500), "")]),
        ZaikoFile(6, 20240105,
                  [c \in {"1002"} |-> Entry(None, None, None, None, "caution")]) } }

MonthArgs == {0, 3, 6}
PageMonths == {3, 6}

-----------------------------------------------------------------------------
(* State machine *)

\* nothing saved or loaded, no calendar call and no ranking made
SnapshotIdle == clock = 20240105 /\ saved = <<>> /\ loaded = <<>>
CalendarIdle == holidays = {} /\ cal = <<>>
CliIdle == now = 1 /\ cli = <<>>

Init ==
    /\ kachi_list \in SeqsUpTo(KachiRows, MaxRows)
    /\ parsed_stocks \in ParsedStocksChoices
    /\ price_file \in PriceFileChoices
    /\ zaiko_dir \in ZaikoDirChoices
    /\ latest_prices = None
    /\ results = <<>>
    /\ called = None
    /\ error = "none"
    /\ page = None
    /\ stock_pages = None
    /\ previous = None
    /\ SnapshotIdle /\ CalendarIdle /\ CliIdle

\* a cache that is read again from the file on every call
CachedPrices_reload == load_latest_prices

\* a cache that is not loaded on first use: an empty map until something
\* else has loaded it
CachedPrices_no_lazy_load == IF IsNone(latest_prices) THEN <<>> ELSE Get(latest_prices)

\* the cache as get_latest_price sees it after its lazy load
CachedPrices ==
    IF IsNone(latest_prices) THEN load_latest_prices ELSE Get(latest_prices)

\* the global after a call: loaded by the first get_latest_price, then kept
CacheAfter(priced) ==
    IF priced /\ IsNone(latest_prices) THEN Some(load_latest_prices)
    ELSE latest_prices

\* results = calculate_all_performance(month)
Calculated(month) ==
    \E out \in {calculate_all_performance(month, CachedPrices)} :
        /\ results' = out.results
        /\ called' = Some(month)
        /\ error' = out.error
        /\ latest_prices' = CacheAfter(out.priced)
        /\ UNCHANGED <<kachi_list, parsed_stocks, price_file, zaiko_dir, page>>
        /\ UNCHANGED <<snapshotVars, calendarVars, cliVars, stock_pages>>

CalculateAllPerformance(month) == Calculated(month) /\ UNCHANGED previous

\* One iteration of the loop of generate_month_pages up to template.render:
\* the month's performance dicts merged with the month's latest snapshot.
\* interest_info and current_month, which the iteration derives from the
\* calendar alone, are not kept in page.
GenerateMonthPage(month) ==
    \E out \in {calculate_all_performance(month, CachedPrices)} :
    \E zaiko_data \in {load_latest_zaiko(month)} :
        /\ error' = out.error
        /\ latest_prices' = CacheAfter(out.priced)
        /\ page' = IF out.error = "none"
                   THEN Some([month |-> month,
                              stocks |-> [i \in 1..Len(out.results) |->
                                  MergeZaiko(to_dict(out.results[i]), zaiko_data)]])
                   ELSE page
        /\ UNCHANGED <<kachi_list, parsed_stocks, price_file, zaiko_dir,
                       results, called, previous>>
        /\ UNCHANGED <<snapshotVars, calendarVars, cliVars, stock_pages>>

Next ==
    \/ \E month \in MonthArgs : CalculateAllPerformance(month)
    \/ \E month \in PageMonths : GenerateMonthPage(month)

Spec == Init /\ [][Next]_vars

-----------------------------------------------------------------------------
(* Properties *)

ResultSet == {results[i] : i \in 1..Len(results)}
PageStocks == IF IsNone(page) THEN {}
              ELSE {Get(page).stocks[i] : i \in 1..Len(Get(page).stocks)}

\* C1: whenever the price is <= 0 or the required share count is <= 0 the
\* performance of the result is exactly 0, and no call ends in a
\* ZeroDivisionError.
C1_ZeroPerformance ==
    /\ error # "ZeroDivisionError"
    /\ \A r \in ResultSet :
          (RLeZero(r.price) \/ r.required_shares <= 0) => r.performance = <<0, 1>>

\* C1 witness: a call returned a result with a positive price, a positive
\* entitlement value and a share count <= 0, and a result with a positive
\* share count and a price <= 0.
C1_Witness ==
    /\ \E r \in ResultSet : /\ r.required_shares <= 0 /\ RGtZero(r.price)
                            /\ RGtZero(r.yuutai_value)
    /\ \E r \in ResultSet : r.required_shares > 0 /\ RLeZero(r.price)

\* C2: for price > 0 and required_shares > 0 the performance p satisfies
\* p * price * shares = 100 * (value - gyaku * shares + dividend * 0.15315 * shares),
\* i.e. p = ((value / shares) - gyaku + dividend * 0.15315) / price * 100; for
\* value 3000, shares 100, borrow cost 2.5, dividend 50, price 2000 the net
\* benefit per share is 35.1575 = 14063/400 and the performance
\* 1.757875 = 14063/8000, which rounds to 1.7579.
C2_Formula ==
    \A r \in ResultSet :
        (RGtZero(r.price) /\ r.required_shares > 0) =>
            /\ RMul(RMul(r.performance, r.price), Rat(r.required_shares))
                 = RMul(Rat(100),
                        RAdd(RSub(r.yuutai_value,
                                  RMul(r.gyaku_hiboku, Rat(r.required_shares))),
                             RMul(RMul(r.dividend, <<15315, 100000>>),
                                  Rat(r.required_shares))))
            /\ ( /\ r.yuutai_value = <<3000, 1>> /\ r.required_shares = 100
                 /\ r.gyaku_hiboku = <<5, 2>> /\ r.dividend = <<50, 1>>
                 /\ r.price = <<2000, 1>> )
               => /\ r.performance = <<14063, 8000>>
                  /\ Round(r.performance, 4) = 17579
                  /\ net_benefit_per_share(r) = <<14063, 400>>

\* C2 witness: the scenario's inputs have been evaluated.
C2_Witness ==
    \E r \in ResultSet :
        /\ r.yuutai_value = <<3000, 1>> /\ r.required_shares = 100
        /\ r.gyaku_hiboku = <<5, 2>> /\ r.dividend = <<50, 1>>
        /\ r.price = <<2000, 1>>

\* C3: the returned list is in descending performance order.
C3_Descending ==
    \A i, j \in 1..Len(results) :
        i < j => ~RLess(results[i].performance, results[j].performance)

\* C3 witness: two results of different performance were returned in the
\* opposite of their registry order.
C3_Witness ==
    \E i, j \in 1..Len(results) :
        /\ i < j
        /\ RLess(results[j].performance, results[i].performance)
        /\ results[j].row < results[i].row

\* the codes of the parsed stock data, and the history of a code
ParsedCodes == {parsed_stocks[i].code : i \in 1..Len(parsed_stocks)}
StockOf(code) ==
    parsed_stocks[CHOOSE i \in 1..Len(parsed_stocks) : parsed_stocks[i].code = code]

\* the registry rows of a settlement month whose code has parsed stock data
RowsWithStockData(month) ==
    {i \in 1..Len(kachi_list) :
        /\ kachi_list[i].settlement_month = NatToStr(month)
        /\ kachi_list[i].code \in ParsedCodes}

\* C4 as stated: a code missing from the inventory snapshot of its settlement
\* month has no result for that month, neither in the returned list nor on
\* the month page.
C4_Original ==
    /\ \A r \in ResultSet : r.code \in DOMAIN load_latest_zaiko(r.settlement_month)
    /\ \A s \in PageStocks : s.stock.code \in DOMAIN load_latest_zaiko(Get(page).month)

\* C4 amended: a result exists only for codes of the parsed stock data; the
\* month page lists every registry row of the month whose code has parsed
\* stock data, whether or not the month's inventory snapshot holds the code;
\* a listed code missing from the snapshot gets an empty inventory, an empty
\* restriction and no maximum borrow-cost rate.
C4_SkipByStockData ==
    /\ \A r \in ResultSet : r.code \in ParsedCodes
    /\ ~IsNone(page) =>
          /\ Len(Get(page).stocks) = Cardinality(RowsWithStockData(Get(page).month))
          /\ \A s \in PageStocks :
                /\ s.stock.code \in ParsedCodes
                /\ s.stock.code \notin DOMAIN load_latest_zaiko(Get(page).month) =>
                      /\ DOMAIN s.zaiko = {}
                      /\ s.restriction = ""
                      /\ s.max_gyaku_rate = <<>>

\* C4 witness: a month page lists a code that the month's snapshot lacks,
\* while a registry row of the same month was skipped for want of stock data.
C4_Witness ==
    /\ \E s \in PageStocks :
          s.stock.code \notin DOMAIN load_latest_zaiko(Get(page).month)
    /\ \E i \in 1..Len(kachi_list) :
          /\ kachi_list[i].settlement_month = NatToStr(Get(page).month)
          /\ kachi_list[i].code \notin ParsedCodes

\* the live price field of the snapshot of a month, <<>> when there is none
SnapshotField(code, month, field) ==
    IF code \in DOMAIN load_latest_zaiko(month)
    THEN load_latest_zaiko(month)[code][field] ELSE <<>>

HistoryClose(code) ==
    IF StockOf(code).gyaku_hiboku = <<>> THEN <<0, 1>>
    ELSE <<StockOf(code).gyaku_hiboku[1].close_price, 1>>

\* C5 as stated: cached live price, else the snapshot's live price, else the
\* closing price of the most recent borrow-cost record, else 0.
C5_Original ==
    \A r \in ResultSet :
        r.price = IF r.code \in DOMAIN Get(latest_prices)
                  THEN Get(latest_prices)[r.code]
                  ELSE IF SnapshotField(r.code, r.settlement_month, "kabuka") # <<>>
                  THEN <<SnapshotField(r.code, r.settlement_month, "kabuka")[1], 1>>
                  ELSE HistoryClose(r.code)

\* C5 amended: cached live price, else the closing price of the most recent
\* borrow-cost record, else 0; the inventory snapshot is not consulted.
C5_PriceChain ==
    results # <<>> =>
        /\ ~IsNone(latest_prices)
        /\ \A r \in ResultSet :
              r.price = IF r.code \in DOMAIN Get(latest_prices)
                        THEN Get(latest_prices)[r.code]
                        ELSE HistoryClose(r.code)

\* C5 witness: a result of a code without cached price whose snapshot holds a
\* live price different from the latest closing price.
C5_Witness ==
    \E r \in ResultSet :
        /\ r.code \notin DOMAIN Get(latest_prices)
        /\ SnapshotField(r.code, r.settlement_month, "kabuka") # <<>>
        /\ <<SnapshotField(r.code, r.settlement_month, "kabuka")[1], 1>>
             # HistoryClose(r.code)
        /\ r.price = HistoryClose(r.code)

\* the dividend rule of the specification for a most-recent-first history
DocumentedDividend(records) ==
    IF records = <<>> THEN <<0, 1>>
    ELSE IF \A i \in 1..Len(records) : records[i].is_forecast
    THEN records[1].amount
    ELSE records[CHOOSE i \in 1..Len(records) :
                    /\ ~records[i].is_forecast
                    /\ \A j \in 1..(i - 1) : records[j].is_forecast].amount

\* C6: the dividend of a result is the most recent actual entry of the
\* most-recent-first history, the most recent forecast when every entry is a
\* forecast, and 0 only for an empty history.
C6_DocumentedDividend ==
    \A r \in ResultSet : r.dividend = DocumentedDividend(StockOf(r.code).dividend)

RECURSIVE SumFirst(_, _)
SumFirst(records, n) ==
    IF n = 0 THEN <<0, 1>>
    ELSE RAdd(SumFirst(records, n - 1), records[n].gyaku_hiboku)

\* C7 as stated: the borrow cost of a result is the snapshot's 5-year average
\* of the code, 0 when absent.
C7_Original ==
    \A r \in ResultSet :
        r.gyaku_hiboku =
            IF SnapshotField(r.code, r.settlement_month, "avg5_gyaku") # <<>>
            THEN SnapshotField(r.code, r.settlement_month, "avg5_gyaku")[1]
            ELSE <<0, 1>>

\* C7 amended: the borrow cost of a result is the mean of the borrow costs of
\* the (at most six) most recent historical records of the code, 0 when the
\* history is empty: n * cost = sum of the first n records, n = min(6, length).
C7_HistoryMean ==
    \A r \in ResultSet :
        LET hist == StockOf(r.code).gyaku_hiboku
            n    == IF Len(hist) < 6 THEN Len(hist) ELSE 6
        IN  IF hist = <<>> THEN r.gyaku_hiboku = <<0, 1>>
            ELSE RMul(r.gyaku_hiboku, <<n, 1>>) = SumFirst(hist, n)

\* C7 witness: a result of a code with more than six records, and a result
\* whose snapshot holds a 5-year average different from its borrow cost.
C7_Witness ==
    /\ \E r \in ResultSet : Len(StockOf(r.code).gyaku_hiboku) > 6
    /\ \E r \in ResultSet :
          /\ SnapshotField(r.code, r.settlement_month, "avg5_gyaku") # <<>>
          /\ SnapshotField(r.code, r.settlement_month, "avg5_gyaku")[1] # r.gyaku_hiboku

IsNotSpace(c) == c # " "
IsNotComma(c) == c # ","
\* the required-shares field of the registry row a result came from, without
\* its surrounding blanks
TrimmedShares(r) == SelectSeq(kachi_list[r.row].required_shares, IsNotSpace)

\* C8: a result is flagged is_differential exactly when the (trimmed)
\* required-shares string of its row starts with "+", and its required_shares
\* is the integer written after the sign: "+N" and "N" both give N.
C8_Differential ==
    \A r \in ResultSet :
        /\ r.is_differential <=> Head(TrimmedShares(r)) = "+"
        /\ Head(TrimmedShares(r)) = "+" =>
              /\ r.required_shares >= 0
              /\ NatToStr(r.required_shares) = Tail(TrimmedShares(r))
        /\ Head(TrimmedShares(r)) \notin {"+", "-"} =>
              /\ r.required_shares >= 0
              /\ NatToStr(r.required_shares) = TrimmedShares(r)

\* C8 witness: a differential result of a "+1000" row and a plain result of
\* a "1000" row, both with share count 1000.
C8_Witness ==
    \E r1, r2 \in ResultSet :
        /\ r1.is_differential /\ ~r2.is_differential
        /\ r1.required_shares = 1000 /\ r2.required_shares = 1000
        /\ Head(TrimmedShares(r1)) = "+"
        /\ Head(TrimmedShares(r2)) = "1"

\* the differential page entries whose registry string is "+N" in plain
\* decimal notation with N > 0
PlainDifferential ==
    {s \in PageStocks :
        /\ s.stock.is_differential
        /\ s.stock.required_shares > 0
        /\ kachi_list[s.stock.row].required_shares
             = <<"+">> \o NatToStr(s.stock.required_shares)}

\* the displayed count with its "+" stripped and re-applied
Reapplied(display) == <<"+">> \o (IF Head(display) = "+" THEN Tail(display) ELSE display)

\* C9 as stated: for every differential entry "+N" the displayed
\* required-share count, with the "+" stripped and re-applied, is the
\* registry string.
C9_Original ==
    \A s \in PlainDifferential :
        Reapplied(s.stock.required_shares_display)
            = kachi_list[s.stock.row].required_shares

\* C9 amended: the displayed count of a differential entry "+N" starts with
\* "+"; it is the registry string when N < 1000 and differs from it by the
\* thousands separators only when N >= 1000.
C9_DisplayRoundTrip ==
    \A s \in PlainDifferential :
        /\ Head(s.stock.required_shares_display) = "+"
        /\ SelectSeq(Reapplied(s.stock.required_shares_display), IsNotComma)
             = kachi_list[s.stock.row].required_shares
        /\ s.stock.required_shares < 1000 <=>
              Reapplied(s.stock.required_shares_display)
                 = kachi_list[s.stock.row].required_shares

\* C9 witness: a page shows a differential entry below 1000 shares and one of
\* 1000 shares.
C9_Witness ==
    /\ \E s \in PlainDifferential : s.stock.required_shares < 1000
    /\ \E s \in PlainDifferential : s.stock.required_shares >= 1000

\* the rows that pass the month filter of a call and have stock data
RowsEvaluated(month) ==
    {i \in 1..Len(kachi_list) :
        /\ month = 0 \/ kachi_list[i].settlement_month = NatToStr(month)
        /\ kachi_list[i].code \in ParsedCodes}

\* C10: a call that returns gives one result per registry row that passes
\* the month filter and has stock data, also when rows share a code: the
\* results are as many as such rows, no two come from the same row, and each
\* carries the code, month, share count and value of its own row.
C10_OneResultPerRow ==
    (~IsNone(called) /\ error = "none") =>
        /\ Len(results) = Cardinality(RowsEvaluated(Get(called)))
        /\ \A i, j \in 1..Len(results) : i # j => results[i].row # results[j].row
        /\ \A r \in ResultSet :
              /\ r.row \in RowsEvaluated(Get(called))
              /\ r.code = kachi_list[r.row].code
              /\ NatToStr(r.settlement_month) = kachi_list[r.row].settlement_month
              /\ r.yuutai_value[2] = 1
              /\ NatToStr(r.yuutai_value[1]) = kachi_list[r.row].yuutai_value
              /\ NatToStr(Abs(r.required_shares))
                   = SelectSeq(TrimmedShares(r), LAMBDA c : c \notin {"+", "-"})

\* C10 witness: two rows of one code with different share counts both have
\* their result in the returned list.
C10_Witness ==
    \E r1, r2 \in ResultSet :
        /\ r1.row # r2.row
        /\ r1.code = r2.code
        /\ r1.required_shares # r2.required_shares

-----------------------------------------------------------------------------
(* Registries with malformed numeric fields *)

\* two well-formed rows, and one row each whose settlement month, required
\* shares or entitlement value is not a number (the last one is empty)
MalformedRows ==
    { Row("1001", <<"3">>, <<"1", "0", "0">>, <<"3", "0", "0", "0">>),
      Row("1002", <<"6">>, <<"1", "0", "0", "0">>, <<"3", "0", "0", "0">>),
      Row("1001", <<"x">>, <<"1", "0", "0">>, <<"3", "0", "0", "0">>),
      Row("1001", <<"3">>, <<"1", "O", "O">>, <<"3", "0", "0", "0">>),
      Row("1002", <<"6">>, <<"1", "0", "0", "0">>, <<>>) }

InitMalformed ==
    /\ kachi_list \in SeqsUpTo(MalformedRows, MaxRows)
    /\ parsed_stocks \in ParsedStocksChoices
    /\ price_file \in PriceFileChoices
    /\ zaiko_dir \in ZaikoDirChoices
    /\ latest_prices = None
    /\ results = <<>>
    /\ called = None
    /\ error = "none"
    /\ page = None
    /\ stock_pages = None
    /\ previous = None
    /\ SnapshotIdle /\ CalendarIdle /\ CliIdle

SpecMalformed == InitMalformed /\ [][Next]_vars

WellFormed(kachi_data) ==
    /\ ~IsNone(ParseInt(kachi_data.settlement_month))
    /\ ~IsNone(ParseInt(Strip(kachi_data.required_shares)))
    /\ ~IsNone(ParseFloat(kachi_data.yuutai_value))

\* C11: a registry row with an unparsable settlement month, required shares
\* or entitlement value does not abort the batch: the call completes without
\* an exception and every well-formed row that passes the month filter and
\* has stock data still yields the result it yields on its own.
C11_BadRowDefaulted ==
    ~IsNone(called) =>
        /\ error = "none"
        /\ \A i \in 1..Len(kachi_list) :
              WellFormed(kachi_list[i]) =>
                \E o \in {ProcessRow(kachi_list[i], i, Get(called),
                                     stocks_dict(parsed_stocks), CachedPrices)} :
                    o.kind = "result" => o.res \in ResultSet

-----------------------------------------------------------------------------
(* Snapshot store: fetch_zaiko.save_zaiko, load_latest_zaiko and           *)
(* yuutai_cli.load_zaiko_data                                              *)

MaxSaves == 2

\* values datetime.now().strftime("%Y%m%d") takes; eight digits each, so the
\* order of the file names is the order of the stamps
ClockDays == {20240105, 20240228, 20250101}
SaveMonths == {3, 6}

SnapshotData ==
    { [c \in {"1001"} |-> Entry(Some(10), Some(1900), Some(<<3, 2>>), Some(500), "")],
      [c \in {"1002"} |-> Entry(None, None, None, None, "caution")] }

\* open(IPPAN_ZAIKO_DIR / f"zaiko_{month:02d}_{today}.json", "w"): a file of
\* the same month and stamp is replaced
save_zaiko(zaiko_data, month) ==
    {f \in zaiko_dir : ~(f.month = month /\ f.today = clock)}
        \cup {ZaikoFile(month, clock, zaiko_data)}

\* a loader that takes the first file of the ascending order
load_zaiko_data_oldest(month) ==
    LET files == {f \in zaiko_dir : f.month = month}
    IN  IF files = {} THEN <<>>
        ELSE (CHOOSE f \in files : \A g \in files : f.today <= g.today).data

\* sorted(ZAIKO_DIR.glob(f"zaiko_{month:02d}_*.json"), reverse=True)[0]
load_zaiko_data(month) ==
    LET files == {f \in zaiko_dir : f.month = month}
    IN  IF files = {} THEN <<>>
        ELSE (CHOOSE f \in files : \A g \in files : g.today <= f.today).data

InitSnapshot ==
    /\ kachi_list = <<>>
    /\ parsed_stocks = <<>>
    /\ price_file = None
    /\ zaiko_dir = {}
    /\ latest_prices = None
    /\ results = <<>>
    /\ called = None
    /\ error = "none"
    /\ page = None
    /\ stock_pages = None
    /\ previous = None
    /\ clock \in ClockDays
    /\ saved = <<>>
    /\ loaded = None
    /\ CalendarIdle /\ CliIdle

engineVars == <<kachi_list, parsed_stocks, price_file, latest_prices, results, called, error, page, previous, stock_pages>>

\* the wall clock is an input: any day may follow any day
SetClock ==
    /\ clock' \in ClockDays \ {clock}
    /\ UNCHANGED <<engineVars, zaiko_dir, saved, loaded, calendarVars, cliVars>>

SaveZaiko(zaiko_data, month) ==
    /\ Len(saved) < MaxSaves
    /\ zaiko_dir' = save_zaiko(zaiko_data, month)
    /\ saved' = Append(saved, ZaikoFile(month, clock, zaiko_data))
    /\ UNCHANGED <<engineVars, clock, loaded, calendarVars, cliVars>>

\* at: the number of saves made before the load
LoadLatestZaiko(month) ==
    /\ loaded' = Some([month |-> month, data |-> load_latest_zaiko(month), at |-> Len(saved)])
    /\ UNCHANGED <<engineVars, zaiko_dir, clock, saved, calendarVars, cliVars>>

LoadZaikoData(month) ==
    /\ loaded' = Some([month |-> month, data |-> load_zaiko_data(month), at |-> Len(saved)])
    /\ UNCHANGED <<engineVars, zaiko_dir, clock, saved, calendarVars, cliVars>>

NextSnapshot ==
    \/ SetClock
    \/ \E zaiko_data \in SnapshotData, month \in SaveMonths : SaveZaiko(zaiko_data, month)
    \/ \E month \in SaveMonths : LoadLatestZaiko(month)
    \/ \E month \in SaveMonths : LoadZaikoData(month)

SpecSnapshot == InitSnapshot /\ [][NextSnapshot]_vars

\* the saves of month m among the first n saves
SavesOf(m, n) == {i \in 1..n : saved[i].month = m}
\* of these, the last save that carries the greatest stamp
TopSave(m, n) ==
    CHOOSE i \in SavesOf(m, n) :
        \A j \in SavesOf(m, n) :
            \/ saved[j].today < saved[i].today
            \/ saved[j].today = saved[i].today /\ j <= i

\* C12: whatever saves were made, a load of the latest snapshot of month m
\* returns the content saved for m under the greatest date stamp (the content
\* last written under that stamp), never that of another month or of an
\* older stamp, and the empty map when nothing was saved for m.
C12_LatestSnapshot ==
    ~IsNone(loaded) =>
        LET l == Get(loaded)
        IN  IF SavesOf(l.month, l.at) = {} THEN l.data = <<>>
            ELSE l.data = saved[TopSave(l.month, l.at)].data

\* C12 witness: a load of a month saved twice under different stamps, the
\* later call under the older stamp and with another content; the load
\* returned the content of the first call
C12_Witness ==
    /\ ~IsNone(loaded)
    /\ Len(saved) = 2 /\ Get(loaded).at = 2
    /\ saved[1].month = Get(loaded).month /\ saved[2].month = Get(loaded).month
    /\ saved[2].today < saved[1].today
    /\ saved[1].data # saved[2].data
    /\ Get(loaded).data = saved[1].data

-----------------------------------------------------------------------------
(* Calendar of scripts/generate_html.py                                    *)
(* A datetime.date is its number of days since 2024-01-01, a Monday.       *)

FirstYear == 2024

IsLeap(y) == (y % 4 = 0 /\ y % 100 # 0) \/ y % 400 = 0
DaysInYear(y) == IF IsLeap(y) THEN 366 ELSE 365
DaysInMonth(y, m) ==
    IF m = 2 THEN (IF IsLeap(y) THEN 29 ELSE 28)
    ELSE IF m \in {4, 6, 9, 11} THEN 30 ELSE 31

RECURSIVE DaysBeforeYear(_)
DaysBeforeYear(y) ==
    IF y <= FirstYear THEN 0 ELSE DaysBeforeYear(y - 1) + DaysInYear(y - 1)

RECURSIVE DaysBeforeMonth(_, _)
DaysBeforeMonth(y, m) ==
    IF m <= 1 THEN 0 ELSE DaysBeforeMonth(y, m - 1) + DaysInMonth(y, m - 1)

\* date(y, m, d)
Date(y, m, d) == DaysBeforeYear(y) + DaysBeforeMonth(y, m) + d - 1

\* d.year
RECURSIVE YearFrom(_, _)
YearFrom(d, y) == IF d < DaysBeforeYear(y + 1) THEN y ELSE YearFrom(d, y + 1)
Year(d) == YearFrom(d, FirstYear)

\* d.weekday(): 0 is Monday
Weekday(d) == d % 7

\* a predicate that knows weekends only
is_business_day_weekends_only(d) == Weekday(d) < 5

is_business_day(d) ==
    IF Weekday(d) >= 5 THEN FALSE
    ELSE IF d \in holidays THEN FALSE
    ELSE TRUE

\* a loop test that returns d whatever day it is
NextBusinessDayLoop_return_at_once(d) == [d |-> d, returned |-> TRUE]

\* one test of "while not is_business_day(d)": the body d += timedelta(days=1)
\* or the return of d
NextBusinessDayLoop(d) ==
    IF ~is_business_day(d) THEN [d |-> d + 1, returned |-> FALSE]
    ELSE [d |-> d, returned |-> TRUE]

RECURSIVE get_next_business_day(_)
get_next_business_day(d) ==
    IF NextBusinessDayLoop(d).returned THEN NextBusinessDayLoop(d).d
    ELSE get_next_business_day(NextBusinessDayLoop(d).d)

\* while not is_business_day(last_day): last_day -= timedelta(days=1)
RECURSIVE LastBusinessDayFrom(_)
LastBusinessDayFrom(last_day) ==
    IF ~is_business_day(last_day) THEN LastBusinessDayFrom(last_day - 1) ELSE last_day

get_last_business_day_of_month(year, month) ==
    LastBusinessDayFrom(IF month = 12 THEN Date(year + 1, 1, 1) - 1
                        ELSE Date(year, month + 1, 1) - 1)

\* the loop of get_kenri_tsuki_bi entered with kenri_bi and business_days_back
RECURSIVE KenriLoop(_, _)
KenriLoop(kenri_bi, business_days_back) ==
    IF business_days_back < 2
    THEN KenriLoop(kenri_bi - 1,
                   IF is_business_day(kenri_bi - 1) THEN business_days_back + 1
                   ELSE business_days_back)
    ELSE kenri_bi

\* a record date one business day before the last one
get_kenri_tsuki_bi_one_back(year, month) ==
    KenriLoop(get_last_business_day_of_month(year, month), 1)

get_kenri_tsuki_bi(year, month) ==
    KenriLoop(get_last_business_day_of_month(year, month), 0)

\* 1.7
INTEREST_RATE == <<17, 10>>

\* a calculation that always takes the record date of the base date's year
calculate_month_interest_this_year(month, base_date) ==
    LET start_date == get_next_business_day(base_date)
        kenri_date == get_kenri_tsuki_bi(Year(base_date), month)
        days == kenri_date - start_date
    IN  [kenri_date |-> kenri_date, start_date |-> start_date, days |-> days,
         interest |-> Round(RMul(INTEREST_RATE, Norm(days, 365)), 3)]

\* interest is round(..., 3) as a count of thousandths
calculate_month_interest(month, base_date) ==
    LET start_date == get_next_business_day(base_date)
        year  == Year(base_date)
        kenri0 == get_kenri_tsuki_bi(year, month)
        kenri_date == IF kenri0 < start_date THEN get_kenri_tsuki_bi(year + 1, month)
                      ELSE kenri0
        days == kenri_date - start_date
    IN  [kenri_date |-> kenri_date, start_date |-> start_date, days |-> days,
         interest |-> Round(RMul(INTEREST_RATE, Norm(days, 365)), 3)]

MaxHolidays == 3

\* days jpholiday may report: Mon 2024-12-30, Tue 2024-12-31, Thu 2024-12-26,
\* Fri 2024-12-27, Wed 2025-01-01, Wed 2024-02-28, Thu 2024-02-29 and
\* Mon 2025-03-31
CandidateHolidays ==
    { Date(2024, 12, 30), Date(2024, 12, 31), Date(2024, 12, 26), Date(2024, 12, 27),
      Date(2025, 1, 1), Date(2024, 2, 28), Date(2024, 2, 29), Date(2025, 3, 31) }

CalendarYears == {2024, 2025}
Months == 1..12

\* Sat 2024-12-28, Wed 2024-12-25, Tue 2024-02-27, Sat 2025-03-29 and
\* Wed 2025-12-31
BaseDates ==
    { Date(2024, 12, 28), Date(2024, 12, 25), Date(2024, 2, 27), Date(2025, 3, 29),
      Date(2025, 12, 31) }

\* the last day the calendar reaches
Horizon == Date(2027, 12, 31)

InitCalendar ==
    /\ kachi_list = <<>>
    /\ parsed_stocks = <<>>
    /\ price_file = None
    /\ zaiko_dir = {}
    /\ latest_prices = None
    /\ results = <<>>
    /\ called = None
    /\ error = "none"
    /\ page = None
    /\ stock_pages = None
    /\ previous = None
    /\ SnapshotIdle /\ CliIdle
    /\ holidays \in {h \in SUBSET CandidateHolidays : Cardinality(h) <= MaxHolidays}
    /\ cal = None

\* no call is in progress
Returned == IF IsNone(cal) THEN TRUE ELSE Get(cal).returned

\* get_next_business_day(d) is entered
GetNextBusinessDay(d) ==
    /\ Returned
    /\ cal' = Some([fn |-> "get_next_business_day", arg |-> d, d |-> d,
                    returned |-> FALSE])
    /\ UNCHANGED <<engineVars, zaiko_dir, snapshotVars, holidays, cliVars>>

\* one test of its while loop
NextBusinessDayStep ==
    /\ ~Returned
    /\ Get(cal).d < Horizon
    /\ \E t \in {NextBusinessDayLoop(Get(cal).d)} :
          cal' = Some([Get(cal) EXCEPT !.d = t.d, !.returned = t.returned])
    /\ UNCHANGED <<engineVars, zaiko_dir, snapshotVars, holidays, cliVars>>

GetLastBusinessDayOfMonth(year, month) ==
    /\ Returned
    /\ cal' = Some([fn |-> "get_last_business_day_of_month", year |-> year,
                    month |-> month, returned |-> TRUE,
                    result |-> get_last_business_day_of_month(year, month)])
    /\ UNCHANGED <<engineVars, zaiko_dir, snapshotVars, holidays, cliVars>>

GetKenriTsukiBi(year, month) ==
    /\ Returned
    /\ cal' = Some([fn |-> "get_kenri_tsuki_bi", year |-> year, month |-> month,
                    returned |-> TRUE,
                    result |-> get_kenri_tsuki_bi(year, month)])
    /\ UNCHANGED <<engineVars, zaiko_dir, snapshotVars, holidays, cliVars>>

CalculateMonthInterest(month, base_date) ==
    /\ Returned
    /\ cal' = Some([fn |-> "calculate_month_interest", month |-> month,
                    base_date |-> base_date, returned |-> TRUE,
                    result |-> calculate_month_interest(month, base_date)])
    /\ UNCHANGED <<engineVars, zaiko_dir, snapshotVars, holidays, cliVars>>

NextCalendar ==
    \/ \E d \in BaseDates : GetNextBusinessDay(d)
    \/ NextBusinessDayStep
    \/ \E year \in CalendarYears, month \in Months : GetLastBusinessDayOfMonth(year, month)
    \/ \E year \in CalendarYears, month \in Months : GetKenriTsukiBi(year, month)
    \/ \E month \in Months, base_date \in BaseDates : CalculateMonthInterest(month, base_date)

\* the loop of get_next_business_day runs to its end once entered
SpecCalendar ==
    InitCalendar /\ [][NextCalendar]_vars /\ WF_vars(NextBusinessDayStep)

\* a weekday that is not a holiday
BusinessDay(d) == Weekday(d) \notin {5, 6} /\ d \notin holidays
\* the calendar last day of a month
MonthEnd(year, month) == Date(year, month, DaysInMonth(year, month))
\* the business days strictly between two days
BusinessDaysBetween(a, b) == {x \in (a + 1)..(b - 1) : BusinessDay(x)}
\* the days in which the latest business day on or before day e lies: every
\* seven days hold five weekdays, and holidays are few
Back(e) == LET lo == e - 7 * (Cardinality(holidays) + 2)
           IN  (IF lo < 0 THEN 0 ELSE lo)..e
\* the latest business day on or before a day
LastBusinessDayUpTo(e) ==
    CHOOSE x \in Back(e) : BusinessDay(x) /\ \A z \in (x + 1)..e : ~BusinessDay(z)
\* the business day two business days before the month's last business day
RecordDate(year, month) ==
    LET last == LastBusinessDayUpTo(MonthEnd(year, month))
    IN  CHOOSE x \in Back(last) :
            BusinessDay(x) /\ Cardinality(BusinessDaysBetween(x, last)) = 1
CalIs(fn) == ~IsNone(cal) /\ Get(cal).fn = fn

\* C13: for every year, month and holiday set, get_kenri_tsuki_bi returns a
\* business day before the last business day of the month with exactly one
\* business day strictly between the two, December included.
C13_RecordDate ==
    CalIs("get_kenri_tsuki_bi") =>
        LET c == Get(cal)
            last == LastBusinessDayUpTo(MonthEnd(c.year, c.month))
        IN  /\ BusinessDay(c.result)
            /\ c.result < last
            /\ Cardinality(BusinessDaysBetween(c.result, last)) = 1

\* C13 witness: the record date of December 2024 when 30 and 31 December are
\* holidays: Fri 27 is the last business day and Wed 25 the record date
C13_Witness ==
    /\ CalIs("get_kenri_tsuki_bi")
    /\ Get(cal).year = 2024 /\ Get(cal).month = 12
    /\ {Date(2024, 12, 30), Date(2024, 12, 31)} \subseteq holidays
    /\ Date(2024, 12, 27) \notin holidays /\ Date(2024, 12, 26) \notin holidays
    /\ Get(cal).result = Date(2024, 12, 25)

\* C14: get_last_business_day_of_month returns a business day on or before
\* the calendar last day of the month, and no day after it up to the calendar
\* last day is a business day.
C14_LastBusinessDay ==
    CalIs("get_last_business_day_of_month") =>
        LET c == Get(cal)
        IN  /\ BusinessDay(c.result)
            /\ c.result <= MonthEnd(c.year, c.month)
            /\ \A x \in (c.result + 1)..MonthEnd(c.year, c.month) : ~BusinessDay(x)

\* C14 witness: February 2024 with the leap day and the day before it
\* holidays: the result is Tue 27 February
C14_Witness ==
    /\ CalIs("get_last_business_day_of_month")
    /\ Get(cal).year = 2024 /\ Get(cal).month = 2
    /\ {Date(2024, 2, 28), Date(2024, 2, 29)} \subseteq holidays
    /\ Get(cal).result = Date(2024, 2, 27)

\* C15: get_next_business_day(d) returns d when d is a business day and
\* otherwise the earliest business day after d, and its loop ends whenever a
\* business day exists on or after d.
C15_NextBusinessDay ==
    /\ [](CalIs("get_next_business_day") /\ Get(cal).returned =>
            /\ BusinessDay(Get(cal).d)
            /\ Get(cal).d >= Get(cal).arg
            /\ \A x \in Get(cal).arg..(Get(cal).d - 1) : ~BusinessDay(x))
    /\ [](CalIs("get_next_business_day")
            /\ (\E x \in Get(cal).d..Horizon : BusinessDay(x))
          => <>(CalIs("get_next_business_day") /\ Get(cal).returned))

\* C15 witness: the call for Sat 2024-12-28 has returned Thu 2025-01-02,
\* after the weekend and the holidays of 30 December to 1 January
C15_Witness ==
    /\ CalIs("get_next_business_day") /\ Get(cal).returned
    /\ Get(cal).arg = Date(2024, 12, 28)
    /\ Get(cal).d = Date(2025, 1, 2)

\* C16: calculate_month_interest starts at the next business day on or after
\* the base date, takes the record date of the base date's year unless that
\* lies before the start (then next year's), never a record date before the
\* start, and counts days = kenri_date - start_date >= 0.
C16_MonthInterest ==
    CalIs("calculate_month_interest") =>
        LET c == Get(cal)
            r == c.result
            year == Year(c.base_date)
        IN  /\ BusinessDay(r.start_date)
            /\ r.start_date >= c.base_date
            /\ \A x \in c.base_date..(r.start_date - 1) : ~BusinessDay(x)
            /\ r.kenri_date = IF RecordDate(year, c.month) < r.start_date
                              THEN RecordDate(year + 1, c.month)
                              ELSE RecordDate(year, c.month)
            /\ r.kenri_date >= r.start_date
            /\ r.days = r.kenri_date - r.start_date
            /\ r.days >= 0

\* C16 witness: base date Sat 2025-03-29 with Mon 31 March a holiday, target
\* month March: the start is 1 April and the record date is that of 2026
C16_Witness ==
    /\ CalIs("calculate_month_interest")
    /\ Get(cal).base_date = Date(2025, 3, 29) /\ Get(cal).month = 3
    /\ Get(cal).result.start_date = Date(2025, 4, 1)
    /\ Year(Get(cal).result.kenri_date) = 2026
    /\ Get(cal).result.days > 0

-----------------------------------------------------------------------------
(* scripts/yuutai_cli.py: the monthly-yield ranking                        *)

\* 1.7
yuutai_cli_INTEREST_RATE == <<17, 10>>

\* int(row[k]) if row[k] else default
KachiField(field, default) == IF field = <<>> THEN Some(default) ELSE ParseInt(field)

\* the dict entry built from one csv row; <<>> when a conversion raises
KachiInfo(row) ==
    LET month       == KachiField(row.settlement_month, 0)
        kabusu      == KachiField(row.required_shares, 100)
        yutai_value == KachiField(row.yuutai_value, 0)
    IN  IF IsNone(month) \/ IsNone(kabusu) \/ IsNone(yutai_value) THEN None
        ELSE Some([month |-> Get(month), kabusu |-> Get(kabusu),
                   yutai_value |-> Get(yutai_value)])

\* kachi[code] = {...} row after row: the last row of a code stays
load_kachi_data ==
    IF \E i \in 1..Len(kachi_list) : IsNone(KachiInfo(kachi_list[i]))
    THEN [error |-> "ValueError", kachi |-> <<>>]
    ELSE [error |-> "none",
          kachi |-> [c \in {kachi_list[i].code : i \in 1..Len(kachi_list)} |->
                       Get(KachiInfo(kachi_list[
                           CHOOSE i \in 1..Len(kachi_list) :
                               /\ kachi_list[i].code = c
                               /\ \A j \in 1..Len(kachi_list) :
                                     kachi_list[j].code = c => j <= i]))]]

\* a gate that accepts a positive count of any broker
has_zaiko_any_broker(stock) ==
    \E b \in DOMAIN stock.zaiko : ~IsNone(stock.zaiko[b]) /\ Get(stock.zaiko[b]) > 0

has_zaiko(stock) ==
    LET zaiko == stock.zaiko
        nikko == zaiko.nikko
    IN  ~IsNone(nikko) /\ Get(nikko) > 0

\* a count that does not wrap into the next year
calc_months_to_cross_no_wrap(target_month) == target_month - now + 1

\* a count that leaves out the month end of the current month
calc_months_to_cross_exclusive(target_month) ==
    IF target_month >= now THEN target_month - now
    ELSE (12 - now) + target_month

calc_months_to_cross(target_month) ==
    LET current_month == now
    IN  IF target_month >= current_month THEN target_month - current_month + 1
        ELSE (12 - current_month) + target_month + 1

\* (value_per_share - interest) / kabuka * 100 / months
YieldFormula(kabuka, kabusu, yutai_value, months) ==
    LET value_per_share == RDiv(Rat(yutai_value), Rat(kabusu))
        interest == RMul(RMul(Rat(kabuka), RDiv(yuutai_cli_INTEREST_RATE, Rat(100))),
                         RDiv(Rat(months), Rat(12)))
    IN  RDiv(RMul(RDiv(RSub(value_per_share, interest), Rat(kabuka)), Rat(100)),
             Rat(months))

\* a yield without the guard on the entitlement value
calc_monthly_yield_any_value(stock, kachi_info, target_month) ==
    IF IsNone(stock.kabuka) THEN [error |-> "TypeError", value |-> Zero]
    ELSE IF Get(stock.kabuka) <= 0 \/ kachi_info.kabusu <= 0
    THEN [error |-> "none", value |-> Zero]
    ELSE [error |-> "none",
          value |-> YieldFormula(Get(stock.kabuka), kachi_info.kabusu,
                                 kachi_info.yutai_value,
                                 calc_months_to_cross(target_month))]

\* kabuka is None when the snapshot holds null: None <= 0 raises TypeError
calc_monthly_yield(stock, kachi_info, target_month) ==
    LET kabuka      == stock.kabuka
        kabusu      == kachi_info.kabusu
        yutai_value == kachi_info.yutai_value
    IN  IF IsNone(kabuka) THEN [error |-> "TypeError", value |-> Zero]
        ELSE IF Get(kabuka) <= 0 \/ kabusu <= 0 \/ yutai_value <= 0
        THEN [error |-> "none", value |-> Zero]
        ELSE [error |-> "none",
              value |-> YieldFormula(Get(kabuka), kabusu, yutai_value,
                                     calc_months_to_cross(target_month))]

\* the order in which a snapshot file lists its codes (data.items())
CodeOrder == <<"1001", "1002", "1003", "1004">>

\* body of the for loop of show_month_ranking for one code of the snapshot
RankOne(code, data, kachi, month) ==
    IF has_zaiko(data[code]) /\ code \in DOMAIN kachi
    THEN LET y == calc_monthly_yield(data[code], kachi[code], month)
         IN  IF y.error # "none" THEN [kind |-> y.error]
             ELSE [kind |-> "ranked",
                   res |-> [code |-> code, stock |-> data[code],
                            monthly_yield |-> y.value]]
    ELSE [kind |-> "skip"]

RECURSIVE CollectRanked(_, _)
CollectRanked(o, i) ==
    IF i > Len(o) THEN <<>>
    ELSE IF o[i].kind = "ranked" THEN <<o[i].res>> \o CollectRanked(o, i + 1)
    ELSE CollectRanked(o, i + 1)

\* stocks_with_zaiko.sort(key=monthly_yield, reverse=True): stable, descending
InsertByYield(sorted, x) ==
    LET before == {i \in 1..Len(sorted) : RGeq(sorted[i].monthly_yield, x.monthly_yield)}
        n == IF before = {} THEN 0
             ELSE CHOOSE i \in before : \A j \in before : j <= i
    IN  SubSeq(sorted, 1, n) \o <<x>> \o SubSeq(sorted, n + 1, Len(sorted))

\* a sort that leaves the list in the order of the snapshot
SortByYield_unsorted(list) == list

RECURSIVE SortByYield(_)
SortByYield(list) ==
    IF list = <<>> THEN <<>>
    ELSE InsertByYield(SortByYield(SubSeq(list, 1, Len(list) - 1)), list[Len(list)])

\* stocks_with_zaiko[:limit]
Shown(list, limit) == SubSeq(list, 1, IF limit < Len(list) THEN limit ELSE Len(list))

\* the loop, the sort and the printed slice, given the outcome of the loop
\* body for every code
RankOutcomes(o, limit) ==
    IF \E i \in 1..Len(o) : o[i].kind \notin {"skip", "ranked"}
    THEN [error |-> "TypeError", ranked |-> <<>>, shown |-> <<>>]
    ELSE [error |-> "none", ranked |-> SortByYield(CollectRanked(o, 1)),
          shown |-> Shown(SortByYield(CollectRanked(o, 1)), limit)]

RankData(data, k, month, limit) ==
    IF k.error # "none" THEN [error |-> k.error, ranked |-> <<>>, shown |-> <<>>]
    ELSE IF DOMAIN data = {} THEN [error |-> "none", ranked |-> <<>>, shown |-> <<>>]
    ELSE RankOutcomes([i \in 1..Len(CodeOrder) |->
                          IF CodeOrder[i] \in DOMAIN data
                          THEN RankOne(CodeOrder[i], data, k.kachi, month)
                          ELSE [kind |-> "skip"]], limit)

show_month_ranking(month, limit) ==
    RankData(load_zaiko_data(month), load_kachi_data, month, limit)

\* an inventory entry with the counts of two of the brokers and the price
Holding(nikko, sbi, kabuka) ==
    [Entry(nikko, kabuka, None, None, "") EXCEPT !.zaiko.sbi = sbi]

\* March: 1001 and 1003 in Nikko's inventory, 1002 in another broker's only,
\* 1004 with a count of 0.  June: 1001 with a null price, 1003 with price 0.
RankingZaikoDirChoices ==
    { {},
      { ZaikoFile(3, 20240105,
                  [c \in {"1001", "1002", "1003", "1004"} |->
                     IF c = "1001" THEN Holding(Some(10), None, Some(2000))
                     ELSE IF c = "1002" THEN Holding(None, Some(5), Some(1000))
                     ELSE IF c = "1003" THEN Holding(Some(7), Some(1), Some(500))
                     ELSE Holding(Some(0), Some(0), Some(800))]),
        ZaikoFile(6, 20240105,
                  [c \in {"1001", "1003"} |->
                     IF c = "1001" THEN Holding(Some(3), None, None)
                     ELSE Holding(Some(2), None, Some(0))]) } }

\* rows of 1001 with entitlement value 3000 and 0, of 1003 with an empty
\* share count and with a negative one, and a row of 1002
RankingRows ==
    { Row("1001", <<"3">>, <<"1", "0", "0">>, <<"3", "0", "0", "0">>),
      Row("1001", <<"3">>, <<"1", "0", "0">>, <<"0">>),
      Row("1003", <<"3">>, <<>>, <<"5", "0", "0">>),
      Row("1003", <<"6">>, <<"-", "1", "0", "0">>, <<"5", "0", "0">>),
      Row("1002", <<"3">>, <<"1", "0", "0">>, <<"1", "0", "0", "0">>) }

RankingMonths == {3, 6}
Limits == {1, 15}

InitRanking ==
    /\ kachi_list \in SeqsUpTo(RankingRows, MaxRows)
    /\ parsed_stocks = <<>>
    /\ price_file = None
    /\ zaiko_dir \in RankingZaikoDirChoices
    /\ latest_prices = None
    /\ results = <<>>
    /\ called = None
    /\ error = "none"
    /\ page = None
    /\ stock_pages = None
    /\ previous = None
    /\ SnapshotIdle /\ CalendarIdle
    /\ now \in Months
    /\ cli = None

CalcMonthsToCross(target_month) ==
    /\ cli' = Some([fn |-> "calc_months_to_cross", target_month |-> target_month,
                    result |-> calc_months_to_cross(target_month)])
    /\ UNCHANGED <<engineVars, zaiko_dir, snapshotVars, calendarVars, now>>

ShowMonthRanking(month, limit) ==
    /\ \E out \in {show_month_ranking(month, limit)} :
          cli' = Some([fn |-> "show_month_ranking", month |-> month,
                       limit |-> limit, error |-> out.error,
                       ranked |-> out.ranked, shown |-> out.shown])
    /\ UNCHANGED <<engineVars, zaiko_dir, snapshotVars, calendarVars, now>>

NextRanking ==
    \/ \E target_month \in Months : CalcMonthsToCross(target_month)
    \/ \E month \in RankingMonths, limit \in Limits : ShowMonthRanking(month, limit)

SpecRanking == InitRanking /\ [][NextRanking]_vars

CliIs(fn) == ~IsNone(cli) /\ Get(cli).fn = fn
\* a ranking that ran to its end
Ranked == CliIs("show_month_ranking") /\ Get(cli).error = "none"
RankedSet == {Get(cli).ranked[i] : i \in 1..Len(Get(cli).ranked)}
RankedCodes == {r.code : r \in RankedSet}
RegistryCodes == {kachi_list[i].code : i \in 1..Len(kachi_list)}
\* the registry entry the ranking uses for a code
RegistryOf(code) == load_kachi_data.kachi[code]

\* C17: for every target month and current month in 1..12 the number of
\* month ends calc_months_to_cross counts is at least 1 and at most 12.
C17_MonthsInRange ==
    CliIs("calc_months_to_cross") =>
        Get(cli).result >= 1 /\ Get(cli).result <= 12

\* C17 witness: the target is the month before the current one and the
\* count is 12, the upper end of the range
C17_Witness ==
    /\ CliIs("calc_months_to_cross")
    /\ Get(cli).target_month = now - 1
    /\ Get(cli).result = 12

\* C18: calc_months_to_cross is target - current + 1 when target >= current
\* and (12 - current) + target + 1 otherwise; target March seen from November
\* gives 5.
C18_MonthsFormula ==
    CliIs("calc_months_to_cross") =>
        LET target == Get(cli).target_month
        IN  /\ target >= now => Get(cli).result = target - now + 1
            /\ target < now => Get(cli).result = (12 - now) + target + 1
            /\ target = 3 /\ now = 11 => Get(cli).result = 5

\* C18 witness: target March, current month November, result 5
C18_Witness ==
    /\ CliIs("calc_months_to_cross")
    /\ Get(cli).target_month = 3 /\ now = 11
    /\ Get(cli).result = 5

\* some broker of the entry reports a positive count
AnyBrokerPositive(stock) ==
    \E b \in {"nikko", "sbi"} : stock.zaiko[b] # None /\ stock.zaiko[b][1] > 0

\* C19 as stated: a stock of the month's snapshot is ranked exactly when some
\* broker of its inventory reports a positive count and its code is in the
\* registry.
C19_Original ==
    Ranked =>
        \A c \in DOMAIN load_zaiko_data(Get(cli).month) :
            c \in RankedCodes <=>
                AnyBrokerPositive(load_zaiko_data(Get(cli).month)[c])
                /\ c \in RegistryCodes

\* C19: a stock of the month's snapshot is ranked exactly when the Nikko
\* count of its inventory is present and positive and its code is in the
\* registry; the counts of the other brokers do not matter.
C19_NikkoGate ==
    Ranked =>
        \A c \in DOMAIN load_zaiko_data(Get(cli).month) :
            c \in RankedCodes <=>
                /\ load_zaiko_data(Get(cli).month)[c].zaiko.nikko # None
                /\ load_zaiko_data(Get(cli).month)[c].zaiko.nikko[1] > 0
                /\ c \in RegistryCodes

\* C19 witness: the March ranking with 1001 and 1002 in the registry: 1001 is
\* ranked, 1002, held by another broker only, is not
C19_Witness ==
    /\ Ranked /\ Get(cli).month = 3
    /\ {"1001", "1002"} \subseteq RegistryCodes
    /\ "1001" \in RankedCodes /\ "1002" \notin RankedCodes
    /\ AnyBrokerPositive(load_zaiko_data(3)["1002"])

\* (value / shares - price * (1.7 / 100) * (months / 12)) / price * 100 / months
\* as one fraction
ClaimedYield(price, shares, value, months) ==
    Norm(12000 * value - 17 * price * months * shares,
         120 * shares * price * months)

\* C20 as stated: every ranked stock with price > 0 and required shares > 0
\* has the monthly yield of the formula, also when its entitlement value is 0.
C20_Original ==
    Ranked =>
        \A r \in RankedSet :
            r.stock.kabuka[1] > 0 /\ RegistryOf(r.code).kabusu > 0 =>
                r.monthly_yield =
                    ClaimedYield(r.stock.kabuka[1], RegistryOf(r.code).kabusu,
                                 RegistryOf(r.code).yutai_value,
                                 calc_months_to_cross(Get(cli).month))

\* C20: every ranked stock with price > 0 and required shares > 0 has the
\* monthly yield of the formula when its entitlement value is positive, and
\* the monthly yield 0 when its entitlement value is 0 or less.
C20_GuardedYield ==
    Ranked =>
        \A r \in RankedSet :
            r.stock.kabuka[1] > 0 /\ RegistryOf(r.code).kabusu > 0 =>
                r.monthly_yield =
                    IF RegistryOf(r.code).yutai_value > 0
                    THEN ClaimedYield(r.stock.kabuka[1], RegistryOf(r.code).kabusu,
                                      RegistryOf(r.code).yutai_value,
                                      calc_months_to_cross(Get(cli).month))
                    ELSE Zero

\* C20 witness: a ranking with 1001 at entitlement value 0 (yield 0) and 1003
\* at entitlement value 500 for the default 100 shares (yield not 0)
C20_Witness ==
    /\ Ranked
    /\ \E r1, r2 \in RankedSet :
          /\ r1.code = "1001" /\ RegistryOf("1001").yutai_value = 0
          /\ r1.stock.kabuka[1] > 0 /\ r1.monthly_yield = Zero
          /\ r2.code = "1003" /\ RegistryOf("1003").yutai_value = 500
          /\ RegistryOf("1003").kabusu = 100
          /\ r2.monthly_yield # Zero

\* the smaller of two numbers
Min(a, b) == IF a < b THEN a ELSE b

\* C21: the ranking shows the first min(limit, n) stocks of the gated list in
\* descending order of monthly yield: the shown stocks are in non-increasing
\* yield order and no stock cut off by the limit has a strictly higher yield
\* than a shown one.
C21_TopByYield ==
    Ranked =>
        LET c == Get(cli)
            n == Len(c.ranked)
        IN  /\ Len(c.shown) = Min(c.limit, n)
            /\ c.shown = SubSeq(c.ranked, 1, Min(c.limit, n))
            /\ \A i, j \in 1..Len(c.shown) :
                  i < j => RGeq(c.shown[i].monthly_yield, c.shown[j].monthly_yield)
            /\ \A i \in 1..Len(c.shown) : \A j \in (Len(c.shown) + 1)..n :
                  ~RLess(c.shown[i].monthly_yield, c.ranked[j].monthly_yield)

\* C21 witness: two stocks pass the gate, the limit is 1, and the stock shown
\* is 1003, listed after 1001 in the snapshot but with the higher yield
C21_Witness ==
    /\ Ranked
    /\ Get(cli).limit = 1 /\ Len(Get(cli).ranked) = 2 /\ Len(Get(cli).shown) = 1
    /\ Get(cli).shown[1].code = "1003"
    /\ Get(cli).ranked[2].code = "1001"
    /\ RLess(Get(cli).ranked[2].monthly_yield, Get(cli).shown[1].monthly_yield)

-----------------------------------------------------------------------------
(* Repeated calls of calculate_all_performance in one run, with            *)
(* fetch_stock_price.save_latest_prices rewriting the price file between   *)

\* one row per month of code 1001, the second one differential, and a row
\* of code 1002; a list that repeats a row has results of equal performance
RerunRows ==
    { Row("1001", <<"3">>, <<"1", "0", "0">>, <<"3", "0", "0", "0">>),
      Row("1001", <<"6">>, <<"+", "2", "0", "0">>, <<"1", "0", "0", "0">>),
      Row("1002", <<"6">>, <<"1", "0", "0", "0">>, <<"3", "0", "0", "0">>) }

RerunStocksChoices == {<<StockA, StockD>>, <<StockC>>}

\* the maps save_latest_prices writes: 1001 at 1800 or 2100, 1002 at -5 or 950
SavedPrices ==
    { [c \in {"1001", "1002"} |-> IF c = "1001" THEN Rat(1800) ELSE Rat(-5)],
      [c \in {"1001", "1002"} |-> IF c = "1001" THEN Rat(2100) ELSE Rat(950)] }

InitRerun ==
    /\ kachi_list \in SeqsUpTo(RerunRows, MaxRows)
    /\ parsed_stocks \in RerunStocksChoices
    /\ price_file \in PriceFileChoices
    /\ zaiko_dir = {}
    /\ latest_prices = None
    /\ results = <<>>
    /\ called = None
    /\ error = "none"
    /\ page = None
    /\ stock_pages = None
    /\ previous = None
    /\ SnapshotIdle /\ CalendarIdle /\ CliIdle

\* json.dump({"updated_at": ..., "prices": prices}, f)
SaveLatestPrices(prices) ==
    /\ price_file' = Some(prices)
    /\ UNCHANGED <<kachi_list, parsed_stocks, zaiko_dir, latest_prices, results,
                   called, error, page, previous>>
    /\ UNCHANGED <<snapshotVars, calendarVars, cliVars, stock_pages>>

\* a call of calculate_all_performance that keeps what the call before it
\* returned
CalculateAllPerformanceInRun(month) ==
    /\ Calculated(month)
    /\ previous' = IF IsNone(called) THEN None
                   ELSE Some([month |-> Get(called), results |-> results,
                              error |-> error, price_file |-> price_file])

NextRerun ==
    \/ \E month \in MonthArgs : CalculateAllPerformanceInRun(month)
    \/ \E prices \in SavedPrices : SaveLatestPrices(prices)

SpecRerun == InitRerun /\ [][NextRerun]_vars

\* the last two calls had the same month argument
SameCallTwice == ~IsNone(previous) /\ Get(previous).month = Get(called)

\* C22: a second call of calculate_all_performance in the same run, on the
\* same registry and stock data and with the same month, returns the same
\* results in the same order, results of equal performance included (and
\* raises the same exception if the first call raised).
C22_Idempotent ==
    SameCallTwice =>
        /\ results = Get(previous).results
        /\ error = Get(previous).error

\* C22 witness: the registry holds the same row twice, and both of the last
\* two calls returned its two results, equal in performance, in registry order
C22_Witness ==
    /\ SameCallTwice
    /\ Len(results) = 2
    /\ results[1].performance = results[2].performance
    /\ results[1].row = 1 /\ results[2].row = 2
    /\ Get(previous).results = results

\* the price of every result the last two calls both returned for a row
SamePrices ==
    \A r \in ResultSet :
        \A i \in 1..Len(Get(previous).results) :
            Get(previous).results[i].row = r.row =>
                Get(previous).results[i].price = r.price

\* C27: once get_latest_price has loaded the price file, the cached map is
\* never replaced or changed for the rest of the run, and two calls give the
\* same code the same price even when the price file was rewritten between
\* them.
C27_LoadedOnce ==
    /\ [][~IsNone(latest_prices) => latest_prices' = latest_prices]_vars
    /\ [](SameCallTwice => SamePrices)

\* C27 witness: the last call found a price file other than the cached map,
\* and code 1001 has the cached price 1800 in its result and in the result
\* of the call before
C27_Witness ==
    /\ SameCallTwice
    /\ ~IsNone(latest_prices)
    /\ ~IsNone(Get(previous).price_file)
    /\ Get(Get(previous).price_file) # Get(latest_prices)
    /\ Get(Get(previous).price_file)["1001"] = Rat(2100)
    /\ \E r \in ResultSet : r.code = "1001" /\ r.price = Rat(1800)
    /\ \E i \in 1..Len(Get(previous).results) :
          /\ Get(previous).results[i].code = "1001"
          /\ Get(previous).results[i].price = Rat(1800)

-----------------------------------------------------------------------------
(* Repeated rankings while the system clock moves on                       *)

\* the months datetime.now() reads in these runs
ClockMonths == {1, 2, 12}

InitClock ==
    /\ kachi_list \in SeqsUpTo(RankingRows, MaxRows)
    /\ parsed_stocks = <<>>
    /\ price_file = None
    /\ zaiko_dir \in RankingZaikoDirChoices \ {{}}
    /\ latest_prices = None
    /\ results = <<>>
    /\ called = None
    /\ error = "none"
    /\ page = None
    /\ stock_pages = None
    /\ previous = None
    /\ SnapshotIdle /\ CalendarIdle
    /\ now \in ClockMonths
    /\ cli = None

\* the system clock reaches another month
AdvanceClock ==
    /\ now' \in ClockMonths \ {now}
    /\ UNCHANGED <<engineVars, zaiko_dir, snapshotVars, calendarVars, cli>>

\* show_month_ranking(month) with the default limit of main, keeping the
\* outcome of the ranking before it
ShowMonthRankingInRun(month) ==
    /\ \E out \in {show_month_ranking(month, 15)} :
          cli' = Some([fn |-> "show_month_ranking", month |-> month,
                       limit |-> 15, error |-> out.error,
                       ranked |-> out.ranked, shown |-> out.shown])
    /\ previous' = cli
    /\ UNCHANGED <<kachi_list, parsed_stocks, price_file, zaiko_dir, latest_prices,
                   results, called, error, page>>
    /\ UNCHANGED <<snapshotVars, calendarVars, now, stock_pages>>

NextClock ==
    \/ AdvanceClock
    \/ \E month \in RankingMonths : ShowMonthRankingInRun(month)

SpecClock == InitClock /\ [][NextClock]_vars

\* C23: two rankings of the same month on the same snapshot and registry
\* give the same stocks the same yields in the same order, whatever the
\* system clock read at either run.
C23_ClockIndependent ==
    /\ ~IsNone(cli) /\ ~IsNone(previous)
    /\ Get(cli).month = Get(previous).month
    => Get(cli).ranked = Get(previous).ranked

-----------------------------------------------------------------------------
(* Properties of the later claims about the performance engine *)

\* C24: a result with required_shares <= 0 has the per-share entitlement
\* value 0: the net benefit per share its page entry reports is the dividend
\* benefit less the borrow cost, with no entitlement component.
C24_NoEntitlementComponent ==
    \A s \in PageStocks :
        s.stock.required_shares <= 0 =>
            s.stock.net_benefit_per_share =
                Round(RSub(RMul(s.stock.dividend, DIVIDEND_ADJUSTMENT_RATE),
                           s.stock.gyaku_hiboku), 2)

\* the registry rows of settlement month m whose code has stock data
RowsOfMonth(m) ==
    {i \in 1..Len(kachi_list) :
        /\ ParseInt(kachi_list[i].settlement_month) = Some(m)
        /\ kachi_list[i].code \in ParsedCodes}
\* the registry rows the results come from
ResultRows == {r.row : r \in ResultSet}

\* C25: calculate_all_performance(m) returns a result for exactly the
\* registry rows whose settlement month is m and whose code has stock data,
\* and no result of another month; without a month it returns the results of
\* such rows of all months.
C25_MonthFilter ==
    (~IsNone(called) /\ error = "none") =>
        IF Get(called) = 0
        THEN ResultRows = UNION {RowsOfMonth(m) : m \in 1..12}
        ELSE /\ ResultRows = RowsOfMonth(Get(called))
             /\ \A r \in ResultSet : r.settlement_month = Get(called)

\* C25 witness: the registry holds a row of March and a row of June, both
\* with stock data, and the call for March returned the March row only
C25_Witness ==
    /\ called = Some(3) /\ error = "none"
    /\ RowsOfMonth(3) # {} /\ RowsOfMonth(6) # {}
    /\ Len(results) = 1
    /\ results[1].settlement_month = 3


\* the codes of the month's snapshot that pass the gate of the ranking
Gated(month) ==
    {c \in DOMAIN load_zaiko_data(month) :
        has_zaiko(load_zaiko_data(month)[c]) /\ c \in RegistryCodes}

\* C26: show_month_ranking never aborts on missing snapshot data: when a
\* gated stock of the snapshot has a null price the run completes, that stock
\* has monthly yield 0 or is left out, and the other gated stocks are ranked.
C26_NeverAborts ==
    (CliIs("show_month_ranking") /\ load_kachi_data.error = "none") =>
        /\ Get(cli).error = "none"
        /\ \A c \in Gated(Get(cli).month) :
              IF IsNone(load_zaiko_data(Get(cli).month)[c].kabuka)
              THEN \A r \in RankedSet : r.code = c => r.monthly_yield = Zero
              ELSE c \in RankedCodes


-----------------------------------------------------------------------------
(* scripts/generate_html.py: the pages of the single stocks *)

\* get_stocks_with_performance(): the dicts of the results of all months
get_stocks_with_performance(out) == [i \in 1..Len(out.results) |-> to_dict(out.results[i])]

\* a loop that does not skip the differential entries
RECURSIVE UniqueStocks_with_differential(_, _, _)
UniqueStocks_with_differential(all_stocks, i, seen_codes) ==
    IF i > Len(all_stocks) THEN <<>>
    ELSE IF all_stocks[i].code # "" /\ all_stocks[i].code \notin seen_codes
    THEN <<all_stocks[i]>> \o
         UniqueStocks_with_differential(all_stocks, i + 1,
                                        seen_codes \cup {all_stocks[i].code})
    ELSE UniqueStocks_with_differential(all_stocks, i + 1, seen_codes)

\* the first loop of generate_stock_pages, from entry i on
RECURSIVE UniqueStocks(_, _, _)
UniqueStocks(all_stocks, i, seen_codes) ==
    IF i > Len(all_stocks) THEN <<>>
    ELSE LET stock == all_stocks[i]
             code  == stock.code
         IN  IF stock.is_differential
             THEN UniqueStocks(all_stocks, i + 1, seen_codes)
             ELSE IF code # "" /\ code \notin seen_codes
             THEN <<stock>> \o UniqueStocks(all_stocks, i + 1, seen_codes \cup {code})
             ELSE UniqueStocks(all_stocks, i + 1, seen_codes)

\* the file the second loop writes for one stock: the dict is kept under
\* stock, the two keys the loop sets beside it; yield counts 10^-2
StockPage(stock) ==
    [file  |-> stock.code,
     stock |-> stock,
     yield |-> IF stock.simple_yield # 0
               THEN Some(Round(Norm(stock.simple_yield, 10000), 2))
               ELSE None,
     required_amount |-> IF stock.price[1] # 0 /\ stock.required_shares # 0
                         THEN RMul(stock.price, Rat(stock.required_shares))
                         ELSE Zero]

\* the files generate_stock_pages writes, in the order it writes them
generate_stock_pages(out) ==
    LET all_stocks    == get_stocks_with_performance(out)
        unique_stocks == UniqueStocks(all_stocks, 1, {})
    IN  [i \in 1..Len(unique_stocks) |-> StockPage(unique_stocks[i])]

\* registry rows of 1001 for March and June, a differential row of 1001 and
\* of 1002, and a row of 1002
SiteRows ==
    { Row("1001", <<"3">>, <<"1", "0", "0">>, <<"3", "0", "0", "0">>),
      Row("1001", <<"6">>, <<"2", "0", "0">>, <<"9", "0", "0", "0">>),
      Row("1001", <<"6">>, <<"+", "1", "0", "0">>, <<"8", "0", "0", "0">>),
      Row("1002", <<"6">>, <<"+", "3", "0", "0">>, <<"2", "0", "0", "0">>),
      Row("1002", <<"3">>, <<"1", "0", "0", "0">>, <<"3", "0", "0", "0">>) }

InitSite ==
    /\ kachi_list \in SeqsUpTo(SiteRows, MaxRows)
    /\ parsed_stocks \in RerunStocksChoices
    /\ price_file \in PriceFileChoices
    /\ zaiko_dir = {}
    /\ latest_prices = None
    /\ results = <<>>
    /\ called = None
    /\ error = "none"
    /\ page = None
    /\ stock_pages = None
    /\ previous = None
    /\ SnapshotIdle /\ CalendarIdle /\ CliIdle

\* generate_stock_pages(env); an exception of the calculation ends the run
\* before a file is written
GenerateStockPages ==
    \E out \in {calculate_all_performance(0, CachedPrices)} :
        /\ error' = out.error
        /\ latest_prices' = CacheAfter(out.priced)
        /\ stock_pages' = IF out.error = "none"
                          THEN Some(generate_stock_pages(out))
                          ELSE stock_pages
        /\ UNCHANGED <<kachi_list, parsed_stocks, price_file, zaiko_dir,
                       results, called, page, previous>>
        /\ UNCHANGED <<snapshotVars, calendarVars, cliVars>>

\* generate_all: the pages of the months, then the pages of the stocks
NextSite ==
    \/ \E month \in PageMonths : GenerateMonthPage(month)
    \/ GenerateStockPages

SpecSite == InitSite /\ [][NextSite]_vars


\* the entries generate_stock_pages reads: the results of all months in
\* descending order of performance
AllStocks == get_stocks_with_performance(calculate_all_performance(0, CachedPrices))
\* the files the last run wrote
Pages == Get(stock_pages)

\* C28: generate_stock_pages writes at most one page per code and never from
\* a differential entry; the entry of a page is the first non-differential
\* entry of its code in descending order of performance across all months,
\* and a code that has only differential entries gets no page.
C28_OnePagePerCode ==
    ~IsNone(stock_pages) =>
        /\ \A i, j \in 1..Len(Pages) : Pages[i].file = Pages[j].file => i = j
        /\ \A i \in 1..Len(Pages) :
              /\ ~Pages[i].stock.is_differential
              /\ Pages[i].file = Pages[i].stock.code
              /\ \E k \in 1..Len(AllStocks) :
                    /\ AllStocks[k] = Pages[i].stock
                    /\ \A j \in 1..Len(AllStocks) :
                          (AllStocks[j].code = AllStocks[k].code
                           /\ ~AllStocks[j].is_differential) =>
                              /\ k <= j
                              /\ AllStocks[k].performance >= AllStocks[j].performance
        /\ \A k \in 1..Len(AllStocks) :
              (\E i \in 1..Len(Pages) : Pages[i].file = AllStocks[k].code) <=>
                  (\E j \in 1..Len(AllStocks) :
                      /\ AllStocks[j].code = AllStocks[k].code
                      /\ ~AllStocks[j].is_differential)

\* C28 witness: the entries are a differential entry of 1001 followed by an
\* entry of 1001 for its base share count, and the one page written is made
\* from the second
C28_Witness ==
    /\ ~IsNone(stock_pages)
    /\ Len(AllStocks) = 2
    /\ AllStocks[1].code = "1001" /\ AllStocks[1].is_differential
    /\ AllStocks[1].performance > AllStocks[2].performance
    /\ AllStocks[2].code = "1001" /\ ~AllStocks[2].is_differential
    /\ Len(Pages) = 1
    /\ Pages[1].stock = AllStocks[2]

=============================================================================
